---- MODULE Spec2Model ----
(***************************************************************************)
(* Model of update_indices.py: the SELIC / Poupanca update pipelines, the  *)
(* non-regression check, backups, the atomic write and the rollback.       *)
(*                                                                         *)
(* Representation                                                          *)
(*   - a source date string "dd/mm/yyyy" is the record [d, m, y]; the      *)
(*     missing / empty string is NoDate; a string strptime rejects is a    *)
(*     record that fails ParseOK (e.g. 31/02/2012);                        *)
(*   - an ISO date string "YYYY-MM-DD" is the integer YYYYMMDD, a month    *)
(*     key "YYYY-MM" is the integer YYYYMM: for zero-padded four-digit     *)
(*     years string order and integer order coincide, and the slice        *)
(*     date_iso[:7] is the integer division by 100;                        *)
(*   - a number is an integer count of millionths (Unit = 10^-6), so the   *)
(*     source text "0,50" (percent) is 500000 and the factor 0.005 is 5000;*)
(*   - a file is [exists, const, lines, closed]: lines are the entry lines *)
(*     of the array literal, closed tells whether the closing "];" was     *)
(*     written (a file cut short lacks it).                                *)
(***************************************************************************)
EXTENDS Integers, Sequences, FiniteSets, TLC

\* ------------------------------------------------------------------ bounds
MaxRuns == 2        \* pipeline runs in one behaviour
MaxClock == 1       \* clock seconds that may pass in one behaviour
MaxLive == 2        \* chunks of one fetch the remote API may answer
MaxFaults == 3      \* I/O failures and kills in one behaviour
MaxSeries == 2      \* entries of a series handed to the non-regression check alone

\* ------------------------------------------------------- program constants
DECIMALS_JS == 6
POUP_CUTOFF_ISO == 20120501
cutoff_month_docstring == 201205   \* variant: the cutover the docstring names
\* variant: the cutover is the configured one, POUP_CUTOFF_ISO[:7]
cutoff_month_configured == POUP_CUTOFF_ISO \div 100
cutoff_month == 201206
ThisYear == 2025

SELIC_JS_CONST_NAME == "selicFactors"
POUP_JS_CONST_NAME == "poupancaFactors"
TREAT_CHANGED_OLD_VALUES_AS_ERROR == FALSE
Tolerance == 0      \* 1e-12 is below one Unit: any difference exceeds it

\* --------------------------------------------------------------- sequences
RECURSIVE SeqOfSet(_)
\* the elements of a finite set of integers, ascending
SeqOfSet(S) ==
  IF S = {} THEN <<>>
  ELSE LET lo == CHOOSE x \in S : \A y \in S : x <= y
       IN  <<lo>> \o SeqOfSet(S \ {lo})

Range(s) == {s[i] : i \in 1..Len(s)}

RECURSIVE Flatten(_)
Flatten(ss) == IF ss = <<>> THEN <<>> ELSE Head(ss) \o Flatten(Tail(ss))

\* the last element of s that satisfies key(x) = k (s holds one)
LastWith(s, k, key(_)) ==
  s[CHOOSE i \in 1..Len(s) :
      /\ key(s[i]) = k
      /\ \A j \in (i+1)..Len(s) : key(s[j]) # k]

\* ------------------------------------------------------------------- dates
NoDate == [d |-> 0, m |-> 0, y |-> 0]

DaysIn(m, y) ==
  IF m \in {4, 6, 9, 11} THEN 30
  ELSE IF m = 2 THEN (IF (y % 4 = 0 /\ y % 100 # 0) \/ y % 400 = 0 THEN 29 ELSE 28)
  ELSE 31

\* strptime(s, "%d/%m/%Y") succeeds
ParseOK(s) ==
  /\ s.y \in 1..9999
  /\ s.m \in 1..12
  /\ s.d \in 1..DaysIn(s.m, s.y)

\* ordinal of the parsed date (the sort key of the fetchers)
to_date(s) == s.y * 10000 + s.m * 100 + s.d

\* variant: the day of the date is kept
OutDateIso_keep_day(s) == to_date(s)

\* d.strftime("%Y-%m-01")
OutDateIso(s) == s.y * 10000 + s.m * 100 + 1

\* f"{d.year:04d}-{d.month:02d}"
month_key_iso(s) == s.y * 100 + s.m

\* variant: the slice is left out and the whole date is the key
month_key_whole_date(date_iso) == date_iso

\* date_iso[:7]
month_key(date_iso) == date_iso \div 100

\* ------------------------------------------------------------------ values
\* a source value: txt is "none" (key absent / null), "empty" (""),
\* "dec" (a comma-decimal number, n millionths) or "bad" (not a number)
Val(n) == [txt |-> "dec", n |-> n]
NoVal == [txt |-> "none", n |-> 0]
EmptyVal == [txt |-> "empty", n |-> 0]
BadVal == [txt |-> "bad", n |-> 0]

\* raw_val in (None, "")
ValMissing(v) == v.txt \in {"none", "empty"}

\* float(str(raw_val).replace(",", ".").strip()) succeeds
FloatOK(v) == v.txt = "dec"

\* float(...) / 100.0
ToFactor(v) == v.n \div 100

Raw(d, m, y, v) == [data |-> [d |-> d, m |-> m, y |-> y], valor |-> v]
\* ------------------------------------------------------------ the fetchers
\* the answer of the remote API to one chunk request: a failure (network
\* error, non-200, non-list body: http_get_json gives None) or a list
Failed == [ok |-> FALSE, items |-> <<>>]
Answer(items) == [ok |-> TRUE, items |-> items]

\* the chunks fetch_sgs_series requests: one per calendar year
YearChunks(start_year, end_year) ==
  [i \in 1..(IF end_year >= start_year THEN end_year - start_year + 1 ELSE 0) |->
     [ini |-> (start_year + i - 1) * 10000 + 101,
      fim |-> (start_year + i - 1) * 10000 + 1231]]

Min(a, b) == IF a <= b THEN a ELSE b
Max(a, b) == IF a >= b THEN a ELSE b

\* the chunks fetch_sgs_series_range requests: windows of step_years years,
\* clipped to [d0, d1]
RangeChunks(d0, d1, step_years) ==
  [i \in 1..(IF d1.y >= d0.y THEN (d1.y - d0.y) \div step_years + 1 ELSE 0) |->
     LET y == d0.y + (i - 1) * step_years
     IN  [ini |-> Max(y * 10000 + 101, to_date(d0)),
          fim |-> Min(Min(y + step_years - 1, d1.y) * 10000 + 1231, to_date(d1))]]

\* the API answers only the first Len(api) chunks of a fetch; every later
\* request fails
AnswerOf(api, i) == IF i <= Len(api) THEN api[i] ELSE Failed

\* variant: a chunk that fails makes the whole fetch come back empty
AllItems_stop_at_failure(api, chunks) ==
  IF \E i \in 1..Len(chunks) : ~AnswerOf(api, i).ok
  THEN <<>>
  ELSE Flatten([i \in 1..Len(chunks) |-> AnswerOf(api, i).items])

\* all_items: the items of the answered chunks, in request order
AllItems(api, chunks) ==
  Flatten([i \in 1..Len(chunks) |->
             IF AnswerOf(api, i).ok THEN AnswerOf(api, i).items ELSE <<>>])

Data(it) == it.data

\* dedup by date string (the last value wins), drop the missing dates, sort
\* by parsed date; the sort key raises ValueError on a string that does
\* not parse, which no caller catches
DedupSort(all_items) ==
  LET keys == {it.data : it \in Range(all_items)} \ {NoDate}
      order == SeqOfSet({to_date(k) : k \in keys})
  IN  IF \E k \in keys : ~ParseOK(k)
      THEN [crash |-> TRUE, items |-> <<>>]
      ELSE [crash |-> FALSE,
            items |-> [i \in 1..Len(order) |->
                         LET k == CHOOSE k \in keys : to_date(k) = order[i]
                         IN  [data |-> k,
                              valor |-> LastWith(all_items, k, Data).valor]]]

fetch_sgs_series(api, start_year, end_year) ==
  DedupSort(AllItems(api, YearChunks(start_year, end_year)))

fetch_sgs_series_range(api, start_date, end_date, step_years) ==
  DedupSort(AllItems(api, RangeChunks(start_date, end_date, step_years)))

\* ------------------------------------------------------------- normalizers
Pair(date, factor) == [date |-> date, factor |-> factor]
DateOf(p) == p.date

\* a record to_pairs / the daily aggregation keeps
Usable(it) ==
  /\ it.data # NoDate
  /\ ~ValMissing(it.valor)
  /\ ParseOK(it.data)
  /\ FloatOK(it.valor)

\* dict built from a list of pairs (the last pair of a key wins), sorted by key
UniqSorted(out) ==
  LET ds == SeqOfSet({p.date : p \in Range(out)})
  IN  [i \in 1..Len(ds) |-> Pair(ds[i], LastWith(out, ds[i], DateOf).factor)]

to_pairs(items) ==
  UniqSorted([i \in 1..Len(SelectSeq(items, Usable)) |->
                LET it == SelectSeq(items, Usable)[i]
                IN  Pair(OutDateIso(it.data), ToFactor(it.valor))])

\* daily factor of an annualized base-252 rate, fd = (1 + r_aa)^(1/252) - 1,
\* to first order in r_aa (integer millionths)
DailyFactor(v) == ToFactor(v) \div 252

RECURSIVE Compound(_)
\* prod(1 + fd) - 1 over the daily factors of one month, in millionths
Compound(fds) ==
  IF fds = <<>> THEN 0
  ELSE LET acc == Compound(SubSeq(fds, 1, Len(fds) - 1))
           fd == fds[Len(fds)]
       IN  acc + fd + (acc * fd) \div 1000000

\* variant: no bucket, one pair per daily record
selic1178_pair_per_day(items) ==
  LET use == SelectSeq(items, Usable)
  IN  [i \in 1..Len(use) |->
         Pair(month_key_iso(use[i].data) * 100 + 1, DailyFactor(use[i].valor))]

\* fetch_selic1178_monthly_pairs after the fetch: bucket by month, compound
selic1178_monthly_pairs(items) ==
  LET use == SelectSeq(items, Usable)
      keys == SeqOfSet({month_key_iso(it.data) : it \in Range(use)})
      InMonth(k) == SelectSeq(use, LAMBDA it : month_key_iso(it.data) = k)
  IN  [i \in 1..Len(keys) |->
         Pair(keys[i] * 100 + 1,
              Compound([j \in 1..Len(InMonth(keys[i])) |->
                          DailyFactor(InMonth(keys[i])[j].valor)]))]

\* ------------------------------------------------------------------ merger
\* variant: the month is left out of the key
MonthOfItem_year_only(it) == it.data.y * 100 + 1

MonthOfItem(it) == month_key_iso(it.data)

\* merge_poup_series: months before cutoff_month from the old series, months
\* from cutoff_month on from the new one; parse_date raises on a date string
\* that does not parse (uncaught)
merge_poup_series(items_old, items_new) ==
  LET keepOld == SelectSeq(items_old, LAMBDA it : MonthOfItem(it) < cutoff_month)
      keepNew == SelectSeq(items_new, LAMBDA it : MonthOfItem(it) >= cutoff_month)
      all == keepOld \o keepNew
      mks == SeqOfSet({MonthOfItem(it) : it \in Range(all)})
  IN  IF \E it \in Range(items_old) \cup Range(items_new) : ~ParseOK(it.data)
      THEN [crash |-> TRUE, items |-> <<>>]
      ELSE [crash |-> FALSE,
            items |-> [i \in 1..Len(mks) |->
                         [data |-> [d |-> 1, m |-> mks[i] % 100, y |-> mks[i] \div 100],
                          valor |-> LastWith(all, mks[i], MonthOfItem).valor]]]

\* ------------------------------------------------------ the persisted file
NoFile == [exists |-> FALSE, const |-> "", lines |-> <<>>, closed |-> FALSE]
EmptyFile == [exists |-> TRUE, const |-> "", lines |-> <<>>, closed |-> FALSE]

Abs(n) == IF n < 0 THEN -n ELSE n

\* one entry line "  { date: 'YYYY-MM-DD', factor: <v:.6f> },": the factor
\* text is a sign and the digits of |v| to DECIMALS_JS places
Line(date, v) == [date |-> date, minus |-> v < 0, digits |-> Abs(v)]

\* the digits of a factor text made of digits and dots that is no decimal
\* number ("1.2.3", "."): not written by serialize_js, found in a file edited
\* by hand or damaged
NotANumber == -1

\* PAIR_RE matches the line: the factor group is [0-9.]+
PAIR_RE(ln) == ~ln.minus

\* float(m.group(2)) raises ValueError
float_raises(ln) == ln.digits = NotANumber

RECURSIVE SortByDate(_)
\* sorted(out, key=lambda x: x[0]): stable
SortByDate(ps) ==
  IF ps = <<>> THEN <<>>
  ELSE LET i == CHOOSE i \in 1..Len(ps) :
                  /\ \A j \in 1..Len(ps) : ps[i].date <= ps[j].date
                  /\ \A j \in 1..(i-1) : ps[j].date # ps[i].date
       IN  <<ps[i]>> \o SortByDate(SubSeq(ps, 1, i-1) \o SubSeq(ps, i+1, Len(ps)))

\* read_js_pairs raises: the float() of a matched entry fails
read_js_pairs_raises(file) ==
  /\ file.exists
  /\ \E ln \in Range(SelectSeq(file.lines, PAIR_RE)) : float_raises(ln)

\* read_js_pairs where it does not raise
read_js_pairs(file) ==
  IF ~file.exists THEN <<>>
  ELSE LET ms == SelectSeq(file.lines, PAIR_RE)
       IN  SortByDate([i \in 1..Len(ms) |-> Pair(ms[i].date, ms[i].digits)])

serialize_js(const_name, pairs) ==
  [exists |-> TRUE, const |-> const_name,
   lines |-> [i \in 1..Len(pairs) |-> Line(pairs[i].date, pairs[i].factor)],
   closed |-> TRUE]

\* ---------------------------------------------------------- non-regression
PeriodKey(mode, date_iso) == IF mode = "month" THEN month_key(date_iso) ELSE date_iso

\* to_map: the value of the last pair of each period key
ValueAt(pairs, mode, k) ==
  LET KeyOf(p) == PeriodKey(mode, p.date) IN LastWith(pairs, k, KeyOf).factor

\* variant: the difference is taken the wrong way round (new - old)
non_regression_reversed(old, new, mode) ==
  LET old_keys == {PeriodKey(mode, p.date) : p \in Range(old)}
      new_keys == {PeriodKey(mode, p.date) : p \in Range(new)}
      lost == SeqOfSet(new_keys \ old_keys)
  IN  [ok |-> lost = <<>>, lost |-> lost, changed |-> {}]

\* non_regression: [ok, lost, changed]; lost is the sorted list of the old
\* period keys the new series lacks
non_regression(old, new, mode) ==
  LET old_keys == {PeriodKey(mode, p.date) : p \in Range(old)}
      new_keys == {PeriodKey(mode, p.date) : p \in Range(new)}
      lost == SeqOfSet(old_keys \ new_keys)
      changed == {k \in old_keys \cap new_keys :
                    Abs(ValueAt(old, mode, k) - ValueAt(new, mode, k)) > Tolerance}
  IN  IF lost # <<>> THEN [ok |-> FALSE, lost |-> lost, changed |-> {}]
      ELSE IF TREAT_CHANGED_OLD_VALUES_AS_ERROR /\ changed # {}
           THEN [ok |-> FALSE, lost |-> <<>>, changed |-> changed]
           ELSE [ok |-> TRUE, lost |-> <<>>, changed |-> {}]
\* ------------------------------------------------------------- file system
SELIC_JS_NAME == "selic_data.js"
POUP_JS_NAME == "poupanca_data.js"
Names == {SELIC_JS_NAME, POUP_JS_NAME}

NoPath == [dir |-> "", name |-> "", ext |-> "", stamp |-> 0]

\* join_root(name)
join_root(name) == [dir |-> "root", name |-> name, ext |-> "", stamp |-> 0]

\* variant: the content is written in place, without a temporary sibling
TmpOf_in_place(path) == path

\* f"{path}.tmp"
TmpOf(path) == [path EXCEPT !.ext = "tmp"]

\* now_stamp(): the wall clock to the second
now_stamp(t) == t

\* os.path.join(BACKUP_DIR, f"{base}.{stamp}.bak")
BackupPath(path, stamp) ==
  [dir |-> "backups", name |-> path.name, ext |-> "bak", stamp |-> stamp]

Targets == {join_root(n) : n \in Names}
BackupPaths == {BackupPath(t, now_stamp(c)) : t \in Targets, c \in 0..MaxClock}
Paths == Targets \cup {TmpOf(t) : t \in Targets} \cup BackupPaths

\* a file cut short after k of its lines
Cut(file, k) ==
  [exists |-> TRUE, const |-> file.const,
   lines |-> SubSeq(file.lines, 1, k), closed |-> FALSE]

\* what a copy or a write that fails midway can leave behind
Partial(file) == {Cut(file, k) : k \in 0..Max(0, Len(file.lines) - 1)}

\* ------------------------------------------------------------- error codes
\* ERROR_CODES: 0xF0001nn for SELIC, 0xF0002nn for Poupanca
ErrCode(what, n) == (IF what = "selic" THEN 100 ELSE 200) + n

\* the pipeline stage an error code names
StageOf(code) ==
  CASE code % 100 = 1 -> "fetch"
    [] code % 100 = 2 -> "normalization"
    [] code % 100 = 3 -> "serialization"
    [] code % 100 = 4 -> "non_regression"
    [] code % 100 = 5 -> "write"
    [] code % 100 = 6 -> "restore"
    [] OTHER -> "none"

\* ------------------------------------------------------------------- state
VARIABLES
  fs,       \* the files: path -> file
  clock,    \* wall clock, in seconds
  runs,     \* pipeline runs started
  pc,       \* position of the running pipeline
  arg,      \* the arguments of the run: what, source, nr_mode, start_year, target
  loc,      \* the locals of the run
  rc,       \* its return code (-1: none yet)
  errs,     \* the codes err() printed in this run
  log,      \* the file-level calls this run entered, in order
  pre,      \* the files as they were when the run started
  prev,     \* stage and return code of the last failed run before this one
  baks,     \* the backups backup_file has created so far: path and content
  faults    \* I/O failures and kills so far

vars == <<fs, clock, runs, pc, arg, loc, rc, errs, log, pre, prev, baks, faults>>

NoArg == [what |-> "", source |-> "", nr_mode |-> "", start_year |-> 0,
          target |-> NoPath]
NoResult == [ok |-> TRUE, lost |-> <<>>, changed |-> {}]
NoLoc == [items_new |-> <<>>, pairs_new |-> <<>>, pairs_old |-> <<>>,
          bak |-> NoPath, nr |-> NoResult, js |-> NoFile,
          empty_fetch |-> FALSE, restored |-> ""]
NoOutcome == [stage |-> "none", rc |-> 0]

Ended == {"returned", "raised", "killed"}
Running == {"fetch", "fetch_old", "read_old", "backup", "nr", "serialize",
            "w_open", "w_write", "w_replace", "r_open", "r_copy"}

Call(op, path) == [op |-> op, path |-> path]
Called(op) == \E i \in 1..Len(log) : log[i].op = op

\* ------------------------------------------------------------------ inputs
rA == Raw(1, 5, 2012, Val(500000))
rD == Raw(1, 6, 2012, Val(-500000))
rE == Raw(1, 6, 2012, EmptyVal)
rF == Raw(31, 2, 2012, Val(500000))
rM == Raw(15, 5, 2012, Val(600000))

Responses ==
  {Failed, Answer(<<rA>>), Answer(<<rD>>), Answer(<<rE>>), Answer(<<rF>>)}

\* what the API answers to the chunks of one fetch
Apis == [1..MaxLive -> Responses]

\* the SELIC series are daily (1178) or dated within the month: their answers
\* also carry a mid-month record
SelicApis == [1..MaxLive -> Responses \cup {Answer(<<rM>>)}]

StartYears == {2012, ThisYear}
Sources == {"1178", "4390"}
Modes == {"month", "strict"}

\* a file of the legacy shape: a mid-month date
LegacyFile == [exists |-> TRUE, const |-> SELIC_JS_CONST_NAME,
               lines |-> <<Line(20120515, 5000), Line(20120615, 5000)>>,
               closed |-> TRUE]

\* a file whose one entry carries the factor text "1.2.3"
MalformedFile == [exists |-> TRUE, const |-> SELIC_JS_CONST_NAME,
                  lines |-> <<[date |-> 20120501, minus |-> FALSE,
                               digits |-> NotANumber]>>,
                  closed |-> TRUE]

InitFiles == {NoFile, EmptyFile, LegacyFile, MalformedFile}

Init ==
  /\ \E a \in InitFiles, b \in {NoFile} :
       fs = [p \in Paths |->
               IF p = join_root(SELIC_JS_NAME) THEN a
               ELSE IF p = join_root(POUP_JS_NAME) THEN b
               ELSE NoFile]
  /\ clock = 0
  /\ runs = 0
  /\ pc = "idle"
  /\ arg = NoArg
  /\ loc = NoLoc
  /\ rc = -1
  /\ errs = <<>>
  /\ log = <<>>
  /\ pre = fs
  /\ prev = NoOutcome
  /\ baks = {}
  /\ faults = 0

\* ------------------------------------------------------------- the pipeline
\* an operation of the environment fails / succeeds
Fault == faults < MaxFaults /\ faults' = faults + 1
NoFault == faults' = faults

\* the run returns code n after printing the error codes es
Return(n, es) ==
  /\ pc' = "returned"
  /\ rc' = n
  /\ errs' = errs \o es

\* CONFIG.SELIC_JS_NAME / CONFIG.POUP_JS_NAME
JsName(what) == IF what = "selic" THEN SELIC_JS_NAME ELSE POUP_JS_NAME

\* the stage a finished run failed in: the one its last error code names
FailedStage == IF errs = <<>> THEN "none" ELSE StageOf(errs[Len(errs)])

\* variant: the backup is taken first, before anything is fetched
StartRun_backup_first ==
  /\ pc \in {"idle"} \cup Ended
  /\ runs < MaxRuns
  /\ \E w \in {"selic", "poup"} :
       /\ arg' = [NoArg EXCEPT !.what = w, !.target = join_root(JsName(w))]
       /\ fs' = IF fs[join_root(JsName(w))].exists
                THEN [fs EXCEPT ![BackupPath(join_root(JsName(w)), now_stamp(clock))]
                                  = fs[join_root(JsName(w))]]
                ELSE fs
  /\ runs' = runs + 1
  /\ pc' = "fetch"
  /\ loc' = NoLoc
  /\ rc' = -1
  /\ errs' = <<>>
  /\ log' = <<>>
  /\ pre' = fs
  /\ prev' = prev
  /\ UNCHANGED <<clock, baks, faults>>

\* update_selic / update_poupanca is called (main, or one watch iteration):
\* ensure_dirs(), target = join_root(name). The arguments source and
\* start_year are read by the fetch alone and nr_mode by the non-regression
\* check alone: each is drawn by the step that reads it.
StartRun ==
  /\ pc \in {"idle"} \cup Ended
  /\ runs < MaxRuns
  /\ \E w \in {"selic", "poup"} :
       arg' = [NoArg EXCEPT !.what = w, !.target = join_root(JsName(w))]
  /\ runs' = runs + 1
  /\ pc' = "fetch"
  /\ loc' = NoLoc
  /\ rc' = -1
  /\ errs' = <<>>
  /\ log' = <<>>
  /\ pre' = fs
  /\ prev' = IF pc = "returned" /\ rc # 0
             THEN [stage |-> FailedStage, rc |-> rc] ELSE prev
  /\ UNCHANGED <<fs, clock, baks, faults>>

\* update_selic up to the normalized candidate series
FetchSelic ==
  /\ pc = "fetch"
  /\ arg.what = "selic"
  /\ \E api \in SelicApis, src \in Sources, sy \in {2012} :
       LET r == fetch_sgs_series(api, sy, ThisYear)
           pairs == IF src = "1178"
                    THEN selic1178_monthly_pairs(r.items)
                    ELSE to_pairs(r.items)
           l == [loc EXCEPT !.empty_fetch = (r.items = <<>>)]
       IN  /\ arg' = [arg EXCEPT !.source = src, !.start_year = sy]
           /\ IF r.crash
              THEN /\ pc' = "raised"
                   /\ UNCHANGED <<loc, rc, errs>>
              ELSE IF (src = "1178" /\ pairs = <<>>)
                      \/ (src # "1178" /\ r.items = <<>>)
              THEN /\ Return(1, <<ErrCode("selic", 1)>>)
                   /\ loc' = l
              ELSE IF pairs = <<>>
              THEN /\ Return(2, <<ErrCode("selic", 2)>>)
                   /\ loc' = l
              ELSE /\ pc' = "read_old"
                   /\ loc' = [l EXCEPT !.pairs_new = pairs]
                   /\ UNCHANGED <<rc, errs>>
  /\ UNCHANGED <<fs, clock, runs, log, pre, prev, baks, faults>>

PoupNewFrom == [d |-> 1, m |-> 6, y |-> 2012]
PoupNewTo == [d |-> 25, m |-> 9, y |-> 2025]
PoupOldFrom == [d |-> 1, m |-> 1, y |-> 1991]
PoupOldTo == [d |-> 10, m |-> 5, y |-> 2012]

\* update_poupanca: the fetch of the new series (196)
FetchPoupNew ==
  /\ pc = "fetch"
  /\ arg.what = "poup"
  /\ \E api \in Apis, sy \in StartYears :
       LET r == IF sy <= 2012
                THEN fetch_sgs_series_range(api, PoupNewFrom, PoupNewTo, 2)
                ELSE [crash |-> FALSE, items |-> <<>>]
       IN  /\ arg' = [arg EXCEPT !.source = "", !.start_year = sy]
           /\ IF r.crash
              THEN /\ pc' = "raised"
                   /\ UNCHANGED loc
              ELSE /\ pc' = "fetch_old"
                   /\ loc' = [loc EXCEPT !.items_new = r.items,
                                         !.empty_fetch = (sy <= 2012
                                                          /\ r.items = <<>>)]
  /\ UNCHANGED <<fs, clock, runs, rc, errs, log, pre, prev, baks, faults>>

\* update_poupanca: the fetch of the old series (7828), the merge and the
\* normalization
FetchPoupOld ==
  /\ pc = "fetch_old"
  /\ \E api \in Apis :
       LET r == IF arg.start_year <= 2012
                THEN fetch_sgs_series_range(api, PoupOldFrom, PoupOldTo, 2)
                ELSE [crash |-> FALSE, items |-> <<>>]
           mg == merge_poup_series(r.items, loc.items_new)
           pairs == to_pairs(mg.items)
           l == [loc EXCEPT !.empty_fetch = (loc.empty_fetch
                                             \/ (arg.start_year <= 2012
                                                 /\ r.items = <<>>))]
       IN  IF r.crash \/ mg.crash
           THEN /\ pc' = "raised"
                /\ UNCHANGED <<loc, rc, errs>>
           ELSE IF mg.items = <<>>
           THEN /\ Return(1, <<ErrCode("poup", 1)>>)
                /\ loc' = l
           ELSE IF pairs = <<>>
           THEN /\ Return(2, <<ErrCode("poup", 2)>>)
                /\ loc' = l
           ELSE /\ pc' = "read_old"
                /\ loc' = [l EXCEPT !.pairs_new = pairs]
                /\ UNCHANGED <<rc, errs>>
  /\ UNCHANGED <<fs, clock, runs, arg, log, pre, prev, baks, faults>>

\* pairs_old = read_js_pairs(target); its ValueError is caught nowhere
ReadOld ==
  /\ pc = "read_old"
  /\ IF read_js_pairs_raises(fs[arg.target])
     THEN /\ pc' = "raised"
          /\ UNCHANGED loc
     ELSE /\ loc' = [loc EXCEPT !.pairs_old = read_js_pairs(fs[arg.target])]
          /\ pc' = "backup"
  /\ UNCHANGED <<fs, clock, runs, arg, rc, errs, log, pre, prev, baks, faults>>

\* bak = backup_file(target): None when the target does not exist or the
\* copy fails (the exception is swallowed)
Backup ==
  /\ pc = "backup"
  /\ log' = Append(log, Call("backup_file", arg.target))
  /\ pc' = "nr"
  /\ LET dest == BackupPath(arg.target, now_stamp(clock))
     IN  IF ~fs[arg.target].exists
         THEN UNCHANGED <<fs, loc, baks, faults>>
         ELSE \/ /\ fs' = [fs EXCEPT ![dest] = fs[arg.target]]
                 /\ loc' = [loc EXCEPT !.bak = dest]
                 /\ baks' = baks \cup {[path |-> dest, content |-> fs[arg.target]]}
                 /\ NoFault
              \/ /\ fs' \in {fs} \cup {[fs EXCEPT ![dest] = c] :
                                        c \in Partial(fs[arg.target])}
                 /\ Fault
                 /\ UNCHANGED <<loc, baks>>
  /\ UNCHANGED <<clock, runs, arg, rc, errs, pre, prev>>

\* if pairs_old and not non_regression(...): return 3
NonReg ==
  /\ pc = "nr"
  /\ \E mode \in Modes :
       /\ arg' = [arg EXCEPT !.nr_mode = mode]
       /\ IF loc.pairs_old # <<>>
          THEN LET r == non_regression(loc.pairs_old, loc.pairs_new, mode)
               IN  /\ log' = Append(log, Call("non_regression", NoPath))
                   /\ loc' = [loc EXCEPT !.nr = r]
                   /\ IF r.ok
                      THEN /\ pc' = "serialize"
                           /\ UNCHANGED <<rc, errs>>
                      ELSE Return(3, <<ErrCode(arg.what, 4)>>)
          ELSE /\ pc' = "serialize"
               /\ UNCHANGED <<loc, rc, errs, log>>
  /\ UNCHANGED <<fs, clock, runs, pre, prev, baks, faults>>

ConstName(what) == IF what = "selic" THEN SELIC_JS_CONST_NAME ELSE POUP_JS_CONST_NAME

\* js = serialize_js(...); an exception returns 4
Serialize ==
  /\ pc = "serialize"
  /\ \/ /\ loc' = [loc EXCEPT !.js = serialize_js(ConstName(arg.what), loc.pairs_new)]
        /\ pc' = "w_open"
        /\ NoFault
        /\ UNCHANGED <<rc, errs>>
     \/ /\ Return(4, <<ErrCode(arg.what, 3)>>)
        /\ Fault
        /\ UNCHANGED loc
  /\ UNCHANGED <<fs, clock, runs, arg, log, pre, prev, baks>>

\* variant: the rollback is left out
AfterWriteFail_no_restore(bak) == "returned"

\* where the run goes when write_atomic returned False:
\* if bak: restore_backup(bak, target, ...)
AfterWriteFail(bak) == IF bak # NoPath THEN "r_open" ELSE "returned"

\* write_atomic caught an exception: err(code_fail), return False
WriteFailed ==
  /\ pc' = AfterWriteFail(loc.bak)
  /\ errs' = Append(errs, ErrCode(arg.what, 5))
  /\ rc' = IF AfterWriteFail(loc.bak) = "returned" THEN 5 ELSE rc
  /\ Fault

\* write_atomic: open(tmp, "w")
WOpen ==
  /\ pc = "w_open"
  /\ log' = Append(log, Call("write_atomic", arg.target))
  /\ \/ /\ fs' = [fs EXCEPT ![TmpOf(arg.target)] = EmptyFile]
        /\ pc' = "w_write"
        /\ NoFault
        /\ UNCHANGED <<rc, errs>>
     \/ /\ WriteFailed
        /\ UNCHANGED fs
  /\ UNCHANGED <<clock, runs, arg, loc, pre, prev, baks>>

\* write_atomic: f.write(content) and the close of the file
WWrite ==
  /\ pc = "w_write"
  /\ \/ /\ fs' = [fs EXCEPT ![TmpOf(arg.target)] = loc.js]
        /\ pc' = "w_replace"
        /\ NoFault
        /\ UNCHANGED <<rc, errs>>
     \/ /\ \E c \in Partial(loc.js) : fs' = [fs EXCEPT ![TmpOf(arg.target)] = c]
        /\ WriteFailed
  /\ UNCHANGED <<clock, runs, arg, loc, log, pre, prev, baks>>

\* write_atomic: os.replace(tmp, path), then the run returns 0
WReplace ==
  /\ pc = "w_replace"
  /\ \/ /\ fs' = [fs EXCEPT ![TmpOf(arg.target)] = NoFile,
                            ![arg.target] = fs[TmpOf(arg.target)]]
        /\ Return(0, <<>>)
        /\ NoFault
     \/ /\ WriteFailed
        /\ UNCHANGED fs
  /\ UNCHANGED <<clock, runs, arg, loc, log, pre, prev, baks>>

\* restore_backup: shutil.copy2 opens the backup and the target (truncating
\* it); on an exception err(code_fail) and False; the run returns 5
RestoreOpen ==
  /\ pc = "r_open"
  /\ log' = Append(log, Call("restore_backup", loc.bak))
  /\ \/ /\ fs' = [fs EXCEPT ![arg.target] = EmptyFile]
        /\ pc' = "r_copy"
        /\ NoFault
        /\ UNCHANGED <<loc, rc, errs>>
     \/ /\ Return(5, <<ErrCode(arg.what, 6)>>)
        /\ loc' = [loc EXCEPT !.restored = "failed"]
        /\ Fault
        /\ UNCHANGED fs
  /\ UNCHANGED <<clock, runs, arg, pre, prev, baks>>

\* restore_backup: shutil.copy2 copies the content; the run returns 5
RestoreCopy ==
  /\ pc = "r_copy"
  /\ \/ /\ fs' = [fs EXCEPT ![arg.target] = fs[loc.bak]]
        /\ loc' = [loc EXCEPT !.restored = "ok"]
        /\ Return(5, <<>>)
        /\ NoFault
     \/ /\ \E c \in Partial(fs[loc.bak]) : fs' = [fs EXCEPT ![arg.target] = c]
        /\ loc' = [loc EXCEPT !.restored = "failed"]
        /\ Return(5, <<ErrCode(arg.what, 6)>>)
        /\ Fault
  /\ UNCHANGED <<clock, runs, arg, log, pre, prev, baks>>

\* the process ends where it stands (killed, power loss)
Kill ==
  /\ pc \in Running
  /\ pc' = "killed"
  /\ Fault
  /\ UNCHANGED <<fs, clock, runs, arg, loc, rc, errs, log, pre, prev, baks>>

\* a second passes; a run reads the clock once (backup_file), so the seconds
\* that pass during a run are those that pass right before or after it
Tick ==
  /\ clock < MaxClock
  /\ pc \notin Running
  /\ clock' = clock + 1
  /\ UNCHANGED <<fs, runs, pc, arg, loc, rc, errs, log, pre, prev, baks, faults>>

Next ==
  \/ StartRun
  \/ FetchSelic
  \/ FetchPoupNew
  \/ FetchPoupOld
  \/ ReadOld
  \/ Backup
  \/ NonReg
  \/ Serialize
  \/ WOpen
  \/ WWrite
  \/ WReplace
  \/ RestoreOpen
  \/ RestoreCopy
  \/ Kill
  \/ Tick

Spec == Init /\ [][Next]_vars
\* ------------------------------------- the non-regression check on its own
\* non_regression applied to two series as read_js_pairs and the normalizers
\* hand them over: ascending by date
NRDates == {20200101, 20200115, 20200201}
NRPairs == {Pair(d, f) : d \in NRDates, f \in {1, 2}}
NRSeries ==
  {s \in UNION {[1..k -> NRPairs] : k \in 0..MaxSeries} :
     \A i \in 1..Len(s), j \in 1..Len(s) : i < j => s[i].date <= s[j].date}

InitNR ==
  /\ \E old \in NRSeries, new \in NRSeries, mode \in Modes :
       /\ loc = [NoLoc EXCEPT !.pairs_old = old, !.pairs_new = new]
       /\ arg = [NoArg EXCEPT !.nr_mode = mode]
  /\ fs = [p \in Paths |-> NoFile]
  /\ clock = 0
  /\ runs = 0
  /\ pc = "nr_call"
  /\ rc = -1
  /\ errs = <<>>
  /\ log = <<>>
  /\ pre = fs
  /\ prev = NoOutcome
  /\ baks = {}
  /\ faults = 0

CheckNR ==
  /\ pc = "nr_call"
  /\ loc' = [loc EXCEPT !.nr = non_regression(loc.pairs_old, loc.pairs_new, arg.nr_mode)]
  /\ pc' = "nr_done"
  /\ UNCHANGED <<fs, clock, runs, arg, rc, errs, log, pre, prev, baks, faults>>

NextNR == CheckNR

SpecNR == InitNR /\ [][NextNR]_vars

\* ------------------------------------- backup, restore and verify on their own
\* the commands verify and restore-last, and backup_file / restore_backup
\* called on their own, over a root directory that holds two targets: the
\* default SELIC file and a file written with --out selic_data.json
MaxOps == 3         \* commands and calls in one behaviour

OUT_JS_NAME == "selic_data.json"
ToolNames == {SELIC_JS_NAME, OUT_JS_NAME}

\* the characters of a file name (code points)
Chars(name) ==
  IF name = SELIC_JS_NAME
  THEN <<115, 101, 108, 105, 99, 95, 100, 97, 116, 97, 46, 106, 115>>
  ELSE IF name = OUT_JS_NAME
  THEN <<115, 101, 108, 105, 99, 95, 100, 97, 116, 97, 46, 106, 115, 111, 110>>
  ELSE <<112, 111, 117, 112, 97, 110, 99, 97, 95, 100, 97, 116, 97, 46, 106, 115>>

\* the characters of f"{base}.{stamp}.bak": the base, a dot, the stamp. The
\* stamp has a fixed width and is zero-padded, so two stamps compare as
\* their numbers do: it is one element here; the common ".bak" is left out
BakName(path) == Chars(path.name) \o <<46, 1000 + path.stamp>>

\* x.startswith(prefix)
startswith(x, prefix) ==
  Len(prefix) <= Len(x) /\ SubSeq(x, 1, Len(prefix)) = prefix

\* a < b for two strings (the order sorted() uses)
StrLess(a, b) ==
  \E i \in 1..(Len(a) + 1) :
    /\ \A j \in 1..(i - 1) : j <= Len(b) /\ a[j] = b[j]
    /\ i <= Len(b)
    /\ (i = Len(a) + 1 \/ a[i] < b[i])

BACKUP_DIR == [dir |-> "backups", name |-> "", ext |-> "", stamp |-> 0]

ToolTargets == {join_root(n) : n \in ToolNames}
ToolBackups == {BackupPath(t, now_stamp(c)) : t \in ToolTargets, c \in 0..MaxClock}
ToolPaths == ToolTargets \cup ToolBackups \cup {BACKUP_DIR}

\* os.path.isdir(CONFIG.BACKUP_DIR)
isdir(fsys, dir) == fsys[dir].exists

\* [x for x in os.listdir(BACKUP_DIR) if x.startswith(target_name)]
Matching(fsys, target_name) ==
  {p \in ToolBackups : fsys[p].exists /\ startswith(BakName(p), Chars(target_name))}

\* sorted(..., reverse=True)[0]
First(fsys, target_name) ==
  CHOOSE p \in Matching(fsys, target_name) :
    \A q \in Matching(fsys, target_name) : q = p \/ StrLess(BakName(q), BakName(p))

\* variant: the copy creates the destination and copies nothing into it
copy2_nothing(fsys, src, dst) == [fsys EXCEPT ![dst] = EmptyFile]

\* shutil.copy2(src, dst)
copy2(fsys, src, dst) == [fsys EXCEPT ![dst] = fsys[src]]

\* what a copy that raises leaves behind: nothing done, or dst cut short
copy2_failed(fsys, src, dst) ==
  {fsys} \cup {[fsys EXCEPT ![dst] = c] : c \in Partial(fsys[src])}

\* variant: the two series are handed over the other way round
verify_check_swapped(backup_data, current, mode) ==
  non_regression(current, backup_data, mode)

\* ok = non_regression(backup_data, current, "0xF000999", nr_mode)
verify_check(backup_data, current, mode) ==
  non_regression(backup_data, current, mode)

OtherFile == [exists |-> TRUE, const |-> SELIC_JS_CONST_NAME,
              lines |-> <<Line(20120701, 6000)>>, closed |-> TRUE]
ToolFiles == {NoFile, LegacyFile, OtherFile}

NoTool == [cmd |-> "", target_name |-> "", nr_mode |-> ""]
NoToolLoc == [bak |-> NoPath, saved |-> NoFile, last |-> NoPath,
              backup_data |-> <<>>, current |-> <<>>, nr |-> NoResult,
              restored |-> ""]

InitTools ==
  /\ \E a \in {LegacyFile, OtherFile}, b \in ToolFiles, d \in BOOLEAN :
       fs = [p \in ToolPaths |->
               IF p = join_root(SELIC_JS_NAME) THEN a
               ELSE IF p = join_root(OUT_JS_NAME) THEN b
               ELSE IF p = BACKUP_DIR /\ d THEN EmptyFile
               ELSE NoFile]
  /\ clock = 0
  /\ runs = 0
  /\ pc = "idle"
  /\ arg = NoTool
  /\ loc = NoToolLoc
  /\ rc = -1
  /\ errs = <<>>
  /\ log = <<>>
  /\ pre = fs
  /\ prev = NoOutcome
  /\ baks = {}
  /\ faults = 0

\* one more command or call begins
Begin(cmd, n, mode) ==
  /\ runs < MaxOps
  /\ runs' = runs + 1
  /\ arg' = [cmd |-> cmd, target_name |-> n, nr_mode |-> mode]
  /\ pre' = fs
  /\ UNCHANGED <<clock, pc, prev>>

\* b = backup_file(join_root(n))
CallBackup ==
  \E n \in ToolNames :
    LET path == join_root(n)
        dest == BackupPath(path, now_stamp(clock))
        made == [fs EXCEPT ![BACKUP_DIR] = EmptyFile]
    IN  /\ Begin("backup_file", n, "")
        /\ UNCHANGED <<rc, errs>>
        /\ IF ~fs[path].exists
           THEN /\ loc' = [loc EXCEPT !.bak = NoPath, !.saved = NoFile]
                /\ UNCHANGED <<fs, log, baks, faults>>
           ELSE \/ /\ fs' = copy2(made, path, dest)
                   /\ loc' = [loc EXCEPT !.bak = dest, !.saved = fs[path]]
                   /\ log' = Append(log, Call("backup_file", dest))
                   /\ baks' = baks \cup {[path |-> dest, content |-> fs[path]]}
                   /\ NoFault
                \/ /\ fs' \in copy2_failed(made, path, dest)
                   /\ loc' = [loc EXCEPT !.bak = NoPath, !.saved = NoFile]
                   /\ Fault
                   /\ UNCHANGED <<log, baks>>

\* the file is rewritten or deleted by whoever owns it
Modify ==
  \E n \in ToolNames, f \in ToolFiles :
    /\ Begin("modify", n, "")
    /\ f # fs[join_root(n)]
    /\ fs' = [fs EXCEPT ![join_root(n)] = f]
    /\ UNCHANGED <<loc, rc, errs, log, baks, faults>>

\* restore_backup(b, F) with the backup b the last backup_file call returned
CallRestore ==
  /\ loc.bak # NoPath
  /\ LET target == join_root(loc.bak.name)
     IN  /\ Begin("restore_backup", loc.bak.name, "")
         /\ \/ /\ fs' = copy2(fs, loc.bak, target)
               /\ loc' = [loc EXCEPT !.restored = "ok"]
               /\ errs' = <<>>
               /\ NoFault
            \/ /\ fs' \in copy2_failed(fs, loc.bak, target)
               /\ loc' = [loc EXCEPT !.restored = "failed"]
               /\ errs' = <<998>>
               /\ Fault
         /\ UNCHANGED <<rc, log, baks>>

\* restore_last(target_name)
RestoreLast ==
  \E n \in ToolNames :
    LET target == join_root(n)
        last == First(fs, n)
    IN  /\ Begin("restore_last", n, "")
        /\ UNCHANGED <<log, baks>>
        /\ IF ~isdir(fs, BACKUP_DIR) \/ Matching(fs, n) = {}
           THEN /\ rc' = 1
                /\ loc' = [loc EXCEPT !.last = NoPath, !.restored = ""]
                /\ errs' = <<>>
                /\ UNCHANGED <<fs, faults>>
           ELSE \/ /\ fs' = copy2(fs, last, target)
                   /\ loc' = [loc EXCEPT !.last = last, !.restored = "ok"]
                   /\ rc' = 0
                   /\ errs' = <<>>
                   /\ NoFault
                \/ /\ fs' \in copy2_failed(fs, last, target)
                   /\ loc' = [loc EXCEPT !.last = last, !.restored = "failed"]
                   /\ rc' = 2
                   /\ errs' = <<998>>
                   /\ Fault

\* verify(target_name, nr_mode)
Verify ==
  \E n \in ToolNames, mode \in Modes :
    LET current == read_js_pairs(fs[join_root(n)])
        last == First(fs, n)
        backup_data == read_js_pairs(fs[last])
        r == verify_check(backup_data, current, mode)
    IN  /\ Begin("verify", n, mode)
        /\ UNCHANGED <<fs, log, baks, faults>>
        /\ IF ~isdir(fs, BACKUP_DIR) \/ Matching(fs, n) = {}
           THEN /\ rc' = 0
                /\ loc' = [loc EXCEPT !.last = NoPath, !.current = current,
                                      !.backup_data = <<>>, !.nr = NoResult]
                /\ errs' = <<>>
           ELSE /\ rc' = IF r.ok THEN 0 ELSE 1
                /\ loc' = [loc EXCEPT !.last = last, !.current = current,
                                      !.backup_data = backup_data, !.nr = r]
                /\ errs' = IF r.ok THEN <<>> ELSE <<999>>

NextTools ==
  \/ CallBackup
  \/ Modify
  \/ CallRestore
  \/ RestoreLast
  \/ Verify
  \/ Tick

SpecTools == InitTools /\ [][NextTools]_vars

\* ---------------------------------------------------------------- the watch
\* watch_loop(what, start_year, nr_mode, selic_source): the arguments of the
\* runs are drawn by the steps that read them, as above; interval is
\* CONFIG.WATCH_SECONDS. The sleep moves the clock by interval seconds, and
\* the loop is followed while the clock is below MaxClock.
Intervals == {0, 1}
Whats == {"selic", "poup", "both"}

NoWatch == [what |-> "", source |-> "", nr_mode |-> "", start_year |-> 0,
            target |-> NoPath, interval |-> 0]

InitWatch ==
  /\ \E a \in InitFiles :
       fs = [p \in Paths |-> IF p \in Targets THEN a ELSE NoFile]
  /\ \E w \in Whats, i \in Intervals :
       arg = [NoWatch EXCEPT !.what = w, !.interval = i]
  /\ clock = 0
  /\ runs = 0
  /\ pc = "watch"
  /\ loc = NoLoc
  /\ rc = -1
  /\ errs = <<>>
  /\ log = <<>>
  /\ pre = fs
  /\ prev = NoOutcome
  /\ baks = {}
  /\ faults = 0

\* if interval <= 0: return 0
WatchEnter ==
  /\ pc = "watch"
  /\ IF arg.interval <= 0
     THEN pc' = "watch_off" /\ rc' = 0
     ELSE pc' = "watch_top" /\ rc' = rc
  /\ UNCHANGED <<fs, clock, runs, arg, loc, errs, log, pre, prev, baks, faults>>

\* the body of while True: the orchestrator of what is called, or return 2
WatchRun ==
  /\ pc = "watch_top"
  /\ IF arg.what \in {"selic", "poup"}
     THEN /\ arg' = [arg EXCEPT !.target = join_root(JsName(arg.what)),
                                !.source = "", !.nr_mode = "", !.start_year = 0]
          /\ runs' = runs + 1
          /\ pc' = "fetch"
          /\ loc' = NoLoc
          /\ rc' = -1
          /\ errs' = <<>>
          /\ log' = <<>>
          /\ pre' = fs
     ELSE /\ pc' = "watch_bad"
          /\ rc' = 2
          /\ UNCHANGED <<arg, runs, loc, errs, log, pre>>
  /\ UNCHANGED <<fs, clock, prev, baks, faults>>

\* the run returned rc: time.sleep(interval), and the loop goes round
WatchSleep ==
  /\ pc = "returned"
  /\ clock + arg.interval <= MaxClock
  /\ clock' = clock + arg.interval
  /\ pc' = "watch_top"
  /\ UNCHANGED <<fs, runs, arg, loc, rc, errs, log, pre, prev, baks, faults>>

NextWatch ==
  \/ WatchEnter
  \/ WatchRun
  \/ WatchSleep
  \/ FetchSelic
  \/ FetchPoupNew
  \/ FetchPoupOld
  \/ ReadOld
  \/ Backup
  \/ NonReg
  \/ Serialize
  \/ WOpen
  \/ WWrite
  \/ WReplace
  \/ RestoreOpen
  \/ RestoreCopy

SpecWatch == InitWatch /\ [][NextWatch]_vars

\* ------------------------- the fetchers, the merger and the normalizer alone
\* each function applied once to inputs drawn from small sets of raw records
rX == Raw(15, 3, 2021, Val(500000))
rB == Raw(1, 7, 2012, BadVal)
rN == [data |-> NoDate, valor |-> Val(500000)]

SeqsUpTo(S, n) == UNION {[1..k -> S] : k \in 0..n}

FetchRecords == {rA, rD, rE, rF, rN}
MergeRecords == {rA, rM, rD, rE, rF}
PairRecords == {rA, rM, rD, rE, rX, rF, rN, rB}

\* what the API answers to one chunk: a failure, or a list of up to two records
FetchAnswers ==
  {Failed, Answer(<<>>)}
    \cup {Answer(<<r>>) : r \in FetchRecords}
    \cup {Answer(<<r, q>>) : r \in FetchRecords, q \in FetchRecords}

\* a pair of to_pairs handed to to_pairs as a record: the date text
\* "YYYY-MM-DD" holds the fields YYYY, MM, DD where "%d/%m/%Y" looks for day,
\* month and year, and the factor is the value
AsItem(p) ==
  [data |-> [d |-> p.date \div 10000, m |-> (p.date \div 100) % 100,
             y |-> p.date % 100],
   valor |-> Val(p.factor)]

AsItems(pairs) == [i \in 1..Len(pairs) |-> AsItem(pairs[i])]

NoFn == [fn |-> "", api |-> <<>>, items_old |-> <<>>, items_new |-> <<>>,
         items |-> <<>>, out |-> [crash |-> FALSE, items |-> <<>>],
         pairs |-> <<>>, again |-> <<>>]

InitFn ==
  /\ \/ \E f \in {"fetch_sgs_series", "fetch_sgs_series_range"},
           api \in [1..MaxLive -> FetchAnswers] :
          loc = [NoFn EXCEPT !.fn = f, !.api = api]
     \/ \E old \in SeqsUpTo(MergeRecords, MaxSeries),
           new \in SeqsUpTo(MergeRecords, MaxSeries) :
          loc = [NoFn EXCEPT !.fn = "merge_poup_series",
                             !.items_old = old, !.items_new = new]
     \/ \E items \in SeqsUpTo(PairRecords, MaxSeries) :
          loc = [NoFn EXCEPT !.fn = "to_pairs", !.items = items]
  /\ fs = [p \in Paths |-> NoFile]
  /\ clock = 0
  /\ runs = 0
  /\ pc = "fn_call"
  /\ arg = NoArg
  /\ rc = -1
  /\ errs = <<>>
  /\ log = <<>>
  /\ pre = fs
  /\ prev = NoOutcome
  /\ baks = {}
  /\ faults = 0

CallFetch ==
  /\ pc = "fn_call"
  /\ loc.fn \in {"fetch_sgs_series", "fetch_sgs_series_range"}
  /\ loc' = [loc EXCEPT !.out =
               IF loc.fn = "fetch_sgs_series"
               THEN fetch_sgs_series(loc.api, 2012, ThisYear)
               ELSE fetch_sgs_series_range(loc.api, PoupNewFrom, PoupNewTo, 2)]
  /\ pc' = "fn_done"
  /\ UNCHANGED <<fs, clock, runs, arg, rc, errs, log, pre, prev, baks, faults>>

CallMerge ==
  /\ pc = "fn_call"
  /\ loc.fn = "merge_poup_series"
  /\ loc' = [loc EXCEPT !.out = merge_poup_series(loc.items_old, loc.items_new)]
  /\ pc' = "fn_done"
  /\ UNCHANGED <<fs, clock, runs, arg, rc, errs, log, pre, prev, baks, faults>>

CallToPairs ==
  /\ pc = "fn_call"
  /\ loc.fn = "to_pairs"
  /\ loc' = [loc EXCEPT !.pairs = to_pairs(loc.items)]
  /\ pc' = "fn_done"
  /\ UNCHANGED <<fs, clock, runs, arg, rc, errs, log, pre, prev, baks, faults>>

\* the pairs go through to_pairs once more
CallToPairsAgain ==
  /\ pc = "fn_done"
  /\ loc.fn = "to_pairs"
  /\ loc' = [loc EXCEPT !.again = to_pairs(AsItems(loc.pairs))]
  /\ pc' = "fn_again"
  /\ UNCHANGED <<fs, clock, runs, arg, rc, errs, log, pre, prev, baks, faults>>

NextFn ==
  \/ CallFetch
  \/ CallMerge
  \/ CallToPairs
  \/ CallToPairsAgain

SpecFn == InitFn /\ [][NextFn]_vars

\* ------------------------------------------------- the TJSP table update
\* updatetjsp.py: atualizar_tabela on tables of at most MaxTab entries. A
\* table is a dict "YYYY-MM" -> value: its entries in insertion order, one
\* per key.
MaxTab == 2

TabKeys == {"2024-01", "2024-02", "2024-03"}
TabValues == {100, 200}

Entry(k, v) == [k |-> k, v |-> v]
KeysOf(t) == {t[i].k : i \in 1..Len(t)}
\* t[k]
Get(t, k) == t[CHOOSE i \in 1..Len(t) : t[i].k = k].v

Tables ==
  {t \in SeqsUpTo({Entry(k, v) : k \in TabKeys, v \in TabValues}, MaxTab) :
     \A i, j \in 1..Len(t) : i # j => t[i].k # t[j].k}

\* variant: the new table's values overwrite ({**existente, **nova})
atualizar_tabela_overwrite(tabela_existente, tabela_nova) ==
  [tabela_final |->
     [i \in 1..Len(tabela_existente) |->
        IF tabela_existente[i].k \in KeysOf(tabela_nova)
        THEN Entry(tabela_existente[i].k, Get(tabela_nova, tabela_existente[i].k))
        ELSE tabela_existente[i]]
     \o SelectSeq(tabela_nova, LAMBDA e : e.k \notin KeysOf(tabela_existente)),
   tabela_existente |-> tabela_existente]

\* atualizar_tabela: tabela_final = tabela_existente.copy(), then every key
\* of tabela_nova that tabela_final lacks is set; the result and the table
\* passed in as it is after the call
atualizar_tabela(tabela_existente, tabela_nova) ==
  [tabela_final |->
     tabela_existente
     \o SelectSeq(tabela_nova, LAMBDA e : e.k \notin KeysOf(tabela_existente)),
   tabela_existente |-> tabela_existente]

NoTab == [existente |-> <<>>, unificado |-> <<>>]

\* existente and nova as loaded from the file and extracted from the PDF
InitTab ==
  /\ \E e \in Tables, n \in Tables :
       /\ arg = [existente |-> e, nova |-> n]
       /\ loc = [NoTab EXCEPT !.existente = e]
  /\ fs = [p \in Paths |-> NoFile]
  /\ clock = 0
  /\ runs = 0
  /\ pc = "tab_call"
  /\ rc = -1
  /\ errs = <<>>
  /\ log = <<>>
  /\ pre = fs
  /\ prev = NoOutcome
  /\ baks = {}
  /\ faults = 0

\* unificado = atualizar_tabela(existente, nova)
AtualizarTabela ==
  /\ pc = "tab_call"
  /\ LET r == atualizar_tabela(loc.existente, arg.nova)
     IN  loc' = [existente |-> r.tabela_existente, unificado |-> r.tabela_final]
  /\ pc' = "tab_done"
  /\ UNCHANGED <<fs, clock, runs, arg, rc, errs, log, pre, prev, baks, faults>>

NextTab == AtualizarTabela

SpecTab == InitTab /\ [][NextTab]_vars

\* ------------------------------------------------------------ the claims
\* the year-month keys of the entry lines a file holds
FileKeys(file) == {file.lines[i].date \div 100 : i \in 1..Len(file.lines)}

\* C1: over runs in 'month' mode, whatever is fetched and whatever fails, the
\* year-month keys of the persisted file never lose a key: the keys the file
\* held when a run started are keys of the file when the run has ended.
C1_KeysNeverLost ==
  (pc \in Ended /\ arg.nr_mode \in {"", "month"})
    => FileKeys(pre[arg.target]) \subseteq FileKeys(fs[arg.target])

\* C2: when the candidate series lacks a period key of the persisted series,
\* the run returns the non-regression code 3, write_atomic was not called and
\* the target holds what it held before the run.
C2_NonRegressionAborts ==
  (/\ Called("non_regression")
   /\ \E p \in Range(loc.pairs_old) :
        \A q \in Range(loc.pairs_new) :
          IF arg.nr_mode = "month" THEN p.date \div 100 # q.date \div 100
                                   ELSE p.date # q.date)
    => /\ pc = "returned"
       /\ rc = 3
       /\ ~Called("write_atomic")
       /\ fs[arg.target] = pre[arg.target]

C2_Witness ==
  /\ pc = "returned"
  /\ rc = 3
  /\ arg.what = "poup"
  /\ ~loc.nr.ok
  /\ fs[arg.target].exists

\* C3: with the changed-values sub-mode off, non_regression passes exactly
\* when every period key of old (year-month in 'month' mode, the exact date
\* in 'strict' mode) is a period key of new, whatever the values; the lost
\* keys it reports are exactly the old keys absent from new.
C3_NonRegressionByKeys ==
  pc = "nr_done" =>
    LET Key(d) == IF arg.nr_mode = "month" THEN d \div 100 ELSE d
        oldKeys == {Key(p.date) : p \in Range(loc.pairs_old)}
        newKeys == {Key(p.date) : p \in Range(loc.pairs_new)}
        absent == {k \in oldKeys : k \notin newKeys}
    IN  /\ loc.nr.ok <=> (absent = {})
        /\ Range(loc.nr.lost) = absent

C3_Witness ==
  /\ pc = "nr_done"
  /\ arg.nr_mode = "month"
  /\ loc.pairs_old = <<Pair(20200115, 1)>>
  /\ loc.pairs_new = <<Pair(20200101, 2)>>
  /\ loc.nr.ok

\* write_atomic was entered and the rollback has not begun
InWrite == Called("write_atomic") /\ ~Called("restore_backup")

\* C4: from the entry of write_atomic on, wherever it stands, fails or is
\* interrupted, the target holds its complete pre-write content, and after
\* the rename exactly the complete new content.
C4_AtomicWrite ==
  InWrite =>
    IF pc = "returned" /\ rc = 0
    THEN fs[arg.target] = loc.js
    ELSE fs[arg.target] = pre[arg.target]

C4_Witness ==
  /\ InWrite
  /\ ErrCode(arg.what, 5) \in Range(errs)
  /\ fs[TmpOf(arg.target)] = loc.js
  /\ pre[arg.target].exists
  /\ pre[arg.target] # loc.js

\* C5: when write_atomic fails and a backup was taken in the run,
\* restore_backup is called with that backup right after write_atomic, the
\* run returns the write-failure code 5, and if the restore succeeded the
\* target holds what it held before the run.
C5_RollbackOnWriteFailure ==
  (/\ pc = "returned"
   /\ ErrCode(arg.what, 5) \in Range(errs)
   /\ loc.bak # NoPath)
    => /\ rc = 5
       /\ \E i \in 1..(Len(log) - 1) :
            /\ log[i] = Call("write_atomic", arg.target)
            /\ log[i + 1] = Call("restore_backup", loc.bak)
       /\ loc.restored = "ok" => fs[arg.target] = pre[arg.target]

C5_Witness ==
  /\ pc = "returned"
  /\ rc = 5
  /\ loc.bak # NoPath
  /\ loc.restored = "ok"
  /\ fs[arg.target] = pre[arg.target]
  /\ fs[arg.target] # loc.js

\* C6: a run that returns 1 (fetch failure) or 2 (normalization failure) has
\* touched no file: target, backups and temporary files are as they were.
C6_NoFileTouched ==
  (pc = "returned" /\ rc \in {1, 2}) => fs = pre

C6_Witness ==
  /\ pc = "returned"
  /\ rc = 2
  /\ FailedStage = "normalization"
  /\ pre[arg.target].exists

\* C7: a failed run's return code is nonzero and tells its stage from every
\* other stage: two runs that failed in different stages (among them write
\* failed / restore succeeded and write failed / restore failed) return
\* different codes.
C7_DistinctReturnCodes ==
  (pc = "returned" /\ FailedStage # "none")
    => /\ rc # 0
       /\ (prev.stage # "none" /\ prev.stage # FailedStage) => prev.rc # rc

\* C8: a run in which a fetcher call returned an empty series returns the
\* fetch-failure code 1 and persists nothing.
C8_EmptyFetchIsFailure ==
  (pc = "returned" /\ loc.empty_fetch) => (rc = 1 /\ fs = pre)

\* C9: write_atomic is not reached for an existing target unless backup_file
\* produced, in this run, a backup holding the target's content.
C9_BackupBeforeOverwrite ==
  (Called("write_atomic") /\ pre[arg.target].exists)
    => /\ loc.bak # NoPath
       /\ fs[loc.bak] = pre[arg.target]

\* C10: a backup, once created, keeps the content it was created with.
C10_BackupsImmutable ==
  \A b \in baks : fs[b.path] = b.content

\* the backup of target_name that backup_file created last (NoPath: none)
LatestBackupOf(target_name) ==
  LET made == SelectSeq(log, LAMBDA c : c.op = "backup_file"
                                        /\ c.path.name = target_name)
  IN  IF made = <<>> THEN NoPath ELSE made[Len(made)].path

\* C11: after b = backup_file(F), any modifications of F and a
\* restore_backup(b, F) that succeeds, F holds exactly the content it had
\* when the backup was taken.
C11_BackupRestoreRoundTrip ==
  (arg.cmd = "restore_backup" /\ loc.restored = "ok")
    => fs[join_root(arg.target_name)] = loc.saved

C11_Witness ==
  /\ arg.cmd = "restore_backup"
  /\ loc.restored = "ok"
  /\ loc.saved.exists
  /\ pre[join_root(arg.target_name)] # loc.saved
  /\ fs[join_root(arg.target_name)] = loc.saved

\* C12: a restore_last(target_name) that restores has selected the backup of
\* that target that was created last, and the target holds its content, also
\* when the directory holds backups of a target whose name extends
\* target_name.
C12_RestoreLastLatest ==
  (arg.cmd = "restore_last" /\ loc.restored = "ok")
    => /\ loc.last = LatestBackupOf(arg.target_name)
       /\ fs[join_root(arg.target_name)] = fs[loc.last]

C14_WatchNeverEnds ==
  /\ (arg.interval > 0 /\ arg.what \in {"selic", "poup"})
       => pc \notin {"watch_off", "watch_bad", "raised"}
  /\ arg.interval <= 0 => runs = 0

\* the month YYYYMM of a raw record
MonthOfRaw(it) == it.data.y * 100 + it.data.m

\* out holds the records of S, one per date (the last of each date), in
\* ascending order of date
IsDedupSorted(out, S) ==
  /\ \A i \in 1..Len(out), j \in 1..Len(out) :
       i < j => to_date(out[i].data) < to_date(out[j].data)
  /\ {o.data : o \in Range(out)} = {x.data : x \in Range(S)}
  /\ \A o \in Range(out) :
       \E k \in 1..Len(S) :
         /\ S[k] = o
         /\ \A j \in (k + 1)..Len(S) : S[j].data # o.data

C16_MergeSelfIsIdentity ==
  (/\ pc = "fn_done"
   /\ loc.fn = "merge_poup_series"
   /\ loc.items_old = loc.items_new
   /\ ~loc.out.crash)
    => IsDedupSorted(loc.out.items, loc.items_old)

\* C16, amended: for every raw series S whose records are dated on the first
\* day of a month, merge_poup_series(S, S) is S deduplicated and sorted
\* ascending, on whichever side of the cutover the dates of S lie.
C16_MergeSelfOfMonthly ==
  (/\ pc = "fn_done"
   /\ loc.fn = "merge_poup_series"
   /\ loc.items_old = loc.items_new
   /\ ~loc.out.crash
   /\ \A x \in Range(loc.items_old) : x.data.d = 1)
    => IsDedupSorted(loc.out.items, loc.items_old)

C16_Witness ==
  /\ pc = "fn_done"
  /\ loc.fn = "merge_poup_series"
  /\ loc.items_old = <<rD, rA>>
  /\ loc.items_new = <<rD, rA>>
  /\ loc.out.items = <<rA, rD>>

\* C17: to_pairs maps every record with a date and a value that parse to the
\* pair (first day of the month of the date, value / 100), drops the records
\* with a missing date or a missing or empty value, and returns one pair per
\* month, ascending by date, with the factor of the last record of the month.
C17_ToPairs ==
  (pc \in {"fn_done", "fn_again"} /\ loc.fn = "to_pairs") =>
    LET items == loc.items
        out == loc.pairs
        Good(it) == /\ it.data # NoDate
                    /\ it.valor.txt = "dec"
                    /\ ParseOK(it.data)
        Iso(it) == it.data.y * 10000 + it.data.m * 100 + 1
    IN  /\ \A i \in 1..Len(out), j \in 1..Len(out) :
             i < j => out[i].date < out[j].date
        /\ {p.date : p \in Range(out)} = {Iso(it) : it \in {x \in Range(items) : Good(x)}}
        /\ \A p \in Range(out) :
             \E k \in 1..Len(items) :
               /\ Good(items[k])
               /\ Iso(items[k]) = p.date
               /\ p.factor = items[k].valor.n \div 100
               /\ \A j \in (k + 1)..Len(items) :
                    Good(items[j]) => Iso(items[j]) # p.date

C17_Witness ==
  /\ pc = "fn_done"
  /\ loc.fn = "to_pairs"
  /\ loc.items = <<rX, rE>>
  /\ loc.pairs = <<Pair(20210301, 5000)>>

\* C18: a series that went through to_pairs goes through it once more
\* unchanged, dates and factors alike.
C18_NormalizationIdempotent ==
  pc = "fn_again" => loc.again = loc.pairs

\* C19: a fetch returns the records of the chunks that were answered (a
\* failed chunk is skipped and fails nothing), one record per date, ascending
\* by parsed date, each date with the value of its last record in request
\* order, so that of two chunks with the same date the later one wins.
C19_FetchUnionOfChunks ==
  (pc = "fn_done" /\ loc.fn \in {"fetch_sgs_series", "fetch_sgs_series_range"}) =>
    LET api == loc.api
        out == loc.out.items
        recs == {r \in (1..Len(api)) \X (1..2) :
                   /\ api[r[1]].ok
                   /\ r[2] <= Len(api[r[1]].items)
                   /\ api[r[1]].items[r[2]].data # NoDate}
        At(r) == api[r[1]].items[r[2]]
        Later(a, b) == a[1] > b[1] \/ (a[1] = b[1] /\ a[2] > b[2])
    IN  (\A r \in recs : ParseOK(At(r).data)) =>
          /\ ~loc.out.crash
          /\ \A i \in 1..Len(out), j \in 1..Len(out) :
               i < j => to_date(out[i].data) < to_date(out[j].data)
          /\ {o.data : o \in Range(out)} = {At(r).data : r \in recs}
          /\ \A o \in Range(out) :
               \E r \in recs :
                 /\ At(r) = o
                 /\ \A q \in recs : Later(q, r) => At(q).data # o.data

C19_Witness ==
  /\ pc = "fn_done"
  /\ loc.fn = "fetch_sgs_series"
  /\ loc.api[1] = Answer(<<rD>>)
  /\ loc.api[2] = Answer(<<rE, rA>>)
  /\ \A i \in 3..Len(loc.api) : loc.api[i] = Failed
  /\ loc.out.items = <<rA, rE>>

\* C20: a record whose date does not parse never ends a run with an
\* unhandled error: no run is ever left by an exception.
C20_UnparsableRecordSkipped ==
  pc # "raised"

\* a Series as persisted: every date the first day of a month, dates strictly
\* ascending (hence unique, one entry per month)
IsSeries(lines) ==
  /\ \A i \in 1..Len(lines) : lines[i].date % 100 = 1
  /\ \A i, j \in 1..Len(lines) : i < j => lines[i].date < lines[j].date

\* C21: whenever a run has ended with success, the entries of its target file
\* form a Series: one entry per month, each dated the first day of its month,
\* in strictly ascending date order; on the monthly path (to_pairs) and on
\* the daily-aggregation path (fetch_selic1178_monthly_pairs) alike
C21_WrittenFileIsSeries ==
  (pc = "returned" /\ rc = 0)
    => /\ fs[arg.target].lines # <<>>
       /\ IsSeries(fs[arg.target].lines)

\* a successful run on the daily path whose fetch brought two records of one
\* month, dated the 1st and the 15th, written as the one entry of that month
C21_Witness ==
  /\ pc = "returned" /\ rc = 0
  /\ arg.source = "1178"
  /\ Len(loc.pairs_new) = 1
  /\ \E api \in SelicApis :
       LET r == fetch_sgs_series(api, arg.start_year, ThisYear)
       IN  /\ ~r.crash
           /\ Len(SelectSeq(r.items, Usable)) = 2
           /\ selic1178_monthly_pairs(r.items) = loc.pairs_new

\* a file of which no entry has the persisted literal shape
\* { date: 'YYYY-MM-DD', factor: <fixed-point decimal> }
Unshaped(file) ==
  /\ file.exists
  /\ \A ln \in Range(file.lines) : float_raises(ln)

\* C22: a run that meets an existing target file not matching the persisted
\* literal shape reads it as zero entries without raising and goes on as on
\* a fresh start: with nothing failing in the environment it skips the
\* non-regression check, takes a backup of the file and overwrites the file
\* with the new series
C22_UnshapedFileIsFreshStart ==
  (/\ pc \in Ended
   /\ faults = 0
   /\ loc.pairs_new # <<>>
   /\ Unshaped(pre[arg.target]))
    => /\ pc = "returned" /\ rc = 0
       /\ loc.pairs_old = <<>>
       /\ ~Called("non_regression")
       /\ loc.bak # NoPath /\ fs[loc.bak] = pre[arg.target]
       /\ fs[arg.target] = serialize_js(ConstName(arg.what), loc.pairs_new)

\* C23: atualizar_tabela is an add-only union: the result has one entry for
\* every key of either table and for no other key, a key of the existing
\* table keeps the existing value whatever the new table says, a key of the
\* new table alone takes the new value, and the existing table passed in is
\* as it was
C23_AddOnlyUnion ==
  pc = "tab_done"
    => /\ KeysOf(loc.unificado) = KeysOf(arg.existente) \cup KeysOf(arg.nova)
       /\ Len(loc.unificado) = Cardinality(KeysOf(loc.unificado))
       /\ \A k \in KeysOf(arg.existente) :
            Get(loc.unificado, k) = Get(arg.existente, k)
       /\ \A k \in KeysOf(arg.nova) \ KeysOf(arg.existente) :
            Get(loc.unificado, k) = Get(arg.nova, k)
       /\ loc.existente = arg.existente

\* the call has returned for tables that share a key with different values
\* and of which the new one has a key of its own
C23_Witness ==
  /\ pc = "tab_done"
  /\ \E k \in KeysOf(arg.existente) \cap KeysOf(arg.nova) :
       Get(arg.existente, k) # Get(arg.nova, k)
  /\ KeysOf(arg.nova) \ KeysOf(arg.existente) # {}

\* the record of month m in out, if any, carries the value of the last record
\* of month m in src
MonthFrom(out, src, m) ==
  \A o \in Range(out) :
    MonthOfRaw(o) = m
      => \E k \in 1..Len(src) :
           /\ MonthOfRaw(src[k]) = m
           /\ src[k].valor = o.valor
           /\ \A j \in (k + 1)..Len(src) : MonthOfRaw(src[j]) # m

HasMonth(s, m) == \E x \in Range(s) : MonthOfRaw(x) = m

C25_PersistReloadRoundTrip ==
  pc = "backup"
    => /\ Len(loc.pairs_old) = Len(fs[arg.target].lines)
       /\ {p.date : p \in Range(loc.pairs_old)}
            = {ln.date : ln \in Range(fs[arg.target].lines)}

\* C26: at every point of a run, a kill and the rollback after a failed write
\* included, the target file holds its complete pre-run content or the
\* complete newly serialized content
C26_TargetNeverPartial ==
  pc \in Running \cup Ended
    => \/ fs[arg.target] = pre[arg.target]
       \/ loc.js.exists /\ fs[arg.target] = loc.js
====
